---- MODULE Spec2Model ----
(***************************************************************************)
(* A model of dphutils/__init__.py: the array primitives nextpow2,         *)
(* _calc_pad and fft_pad, the accelerated Richardson-Lucy deconvolution    *)
(* richardson_lucy, and the windowed FFT convolution fftconvolve with its  *)
(* real-FFT lock.                                                          *)
(*                                                                         *)
(* Arrays are one-dimensional and are sequences of numbers.  A float is a  *)
(* fixed-point number: the integer n stands for n / Res; magnitudes above  *)
(* MaxMag overflow to +-inf, and NaN is a value of its own, with the IEEE  *)
(* rules for the non-finite values.  A Python scalar is a one-element      *)
(* sequence, which numpy broadcasts; None is the empty sequence.           *)
(***************************************************************************)
EXTENDS Integers, Sequences, FiniteSets, TLC

VARIABLES
    \* a call of an array primitive: the function, its scalar arguments, its
    \* array argument and pad mode, the outcome, and the padding fft_pad used
    a_fn, a_in, a_arr, a_mode, a_out, a_padding

arithVars == <<a_fn, a_in, a_arr, a_mode, a_out, a_padding>>

VARIABLES
    \* richardson_lucy: the position in the call, its arguments and locals
    r_pc, image, psf, iterations, clip, prediction_order,
    psf_norm, otf, u_tm2, u_tm1, u_t, g_tm2, g_tm1, y_t, h1_t, h2_t, alpha, i,
    r_out,
    \* history variables: the estimate and the residual of every iteration so
    \* far, and the estimate of a loop that runs the update with no prediction
    u_hist, g_hist, u_ref

rlArgs == <<image, psf, iterations, clip, prediction_order>>
rlLocals == <<psf_norm, otf, u_tm2, u_tm1, u_t, g_tm2, g_tm1, y_t, h1_t, h2_t, alpha, i>>
rlVars == <<r_pc, rlArgs, rlLocals, r_out, u_hist, g_hist, u_ref>>

VARIABLES
    \* the FFT backend imported at lines 17-25, scipy's _rfft_mt_safe and
    \* _rfft_lock
    backend, rfft_mt_safe, rfft_lock,
    \* fftconvolve: the arguments the threads call it with, and each thread's
    \* position and outcome
    in1, in2, mode, c_pc, c_ret

convVars == <<backend, rfft_mt_safe, rfft_lock, in1, in2, mode, c_pc, c_ret>>

vars == <<arithVars, rlVars, convVars>>

(***************************************************************************)
(* Bounds of the model.                                                    *)
(***************************************************************************)
Res == 8
MaxMag == 4096
MaxN == 17
MaxImgLen == 3
MaxPix == 2
MaxIter == 3
MaxConvLen == 3
NThreads == 2

(***************************************************************************)
(* Floats.                                                                 *)
(***************************************************************************)
PInf == MaxMag + 1
NInf == -(MaxMag + 1)
NaN == MaxMag + 2
One == Res
Flt(k) == k * Res

isfinite(a) == a \in (-MaxMag)..MaxMag

Overflow(n) == IF n > MaxMag THEN PInf ELSE IF n < -MaxMag THEN NInf ELSE n

Sign(a) == IF a = PInf THEN 1 ELSE IF a = NInf THEN -1
           ELSE IF a > 0 THEN 1 ELSE IF a < 0 THEN -1 ELSE 0

SignedInf(s) == IF s > 0 THEN PInf ELSE NInf

\* round-to-nearest quotient p / q for q > 0
RoundDiv(p, q) == (2 * p + q) \div (2 * q)

FNeg(a) == IF a = NaN THEN NaN ELSE IF a = PInf THEN NInf
           ELSE IF a = NInf THEN PInf ELSE -a

FAdd(a, b) ==
    IF a = NaN \/ b = NaN THEN NaN
    ELSE IF ~isfinite(a) /\ ~isfinite(b) THEN (IF a = b THEN a ELSE NaN)
    ELSE IF ~isfinite(a) THEN a
    ELSE IF ~isfinite(b) THEN b
    ELSE Overflow(a + b)

FSub(a, b) == FAdd(a, FNeg(b))

FMul(a, b) ==
    IF a = NaN \/ b = NaN THEN NaN
    ELSE IF ~isfinite(a) \/ ~isfinite(b)
         THEN (IF Sign(a) * Sign(b) = 0 THEN NaN ELSE SignedInf(Sign(a) * Sign(b)))
    ELSE Overflow(RoundDiv(a * b, Res))

FDiv(a, b) ==
    IF a = NaN \/ b = NaN THEN NaN
    ELSE IF ~isfinite(a) /\ ~isfinite(b) THEN NaN
    ELSE IF ~isfinite(a) THEN SignedInf(Sign(a) * (IF b < 0 THEN -1 ELSE 1))
    ELSE IF ~isfinite(b) THEN 0
    ELSE IF b = 0 THEN (IF a = 0 THEN NaN ELSE SignedInf(Sign(a)))
    ELSE IF b > 0 THEN Overflow(RoundDiv(a * Res, b))
    ELSE Overflow(RoundDiv((-a) * Res, -b))

\* a >= b and a < b as IEEE compares: false when either side is NaN
FGe(a, b) ==
    IF a = NaN \/ b = NaN THEN FALSE
    ELSE IF a = b THEN TRUE
    ELSE IF a = PInf \/ b = NInf THEN TRUE
    ELSE IF a = NInf \/ b = PInf THEN FALSE
    ELSE a >= b

FLt(a, b) ==
    IF a = NaN \/ b = NaN THEN FALSE
    ELSE IF a = b THEN FALSE
    ELSE IF a = NInf \/ b = PInf THEN TRUE
    ELSE IF a = PInf \/ b = NInf THEN FALSE
    ELSE a < b

(***************************************************************************)
(* numpy arrays.                                                           *)
(***************************************************************************)
None == << >>

\* the sequence a function on 1..n is
Tup(f) == f \o << >>

Range(s) == {s[k] : k \in DOMAIN s}

AllFinite(a) == \A k \in DOMAIN a : isfinite(a[k])

\* numpy broadcasting of a one-element operand
At(a, k) == IF Len(a) = 1 THEN a[1] ELSE a[k]
BLen(a, b) == IF Len(a) >= Len(b) THEN Len(a) ELSE Len(b)

AAdd(a, b) == Tup([k \in 1..BLen(a, b) |-> FAdd(At(a, k), At(b, k))])
ASub(a, b) == Tup([k \in 1..BLen(a, b) |-> FSub(At(a, k), At(b, k))])
AMul(a, b) == Tup([k \in 1..BLen(a, b) |-> FMul(At(a, k), At(b, k))])
ADiv(a, b) == Tup([k \in 1..BLen(a, b) |-> FDiv(At(a, k), At(b, k))])

RECURSIVE FSumTo(_, _)
FSumTo(a, k) == IF k = 0 THEN 0 ELSE FAdd(FSumTo(a, k - 1), a[k])
ASum(a) == FSumTo(a, Len(a))

Fill(n, v) == Tup([k \in 1..n |-> v])

(***************************************************************************)
(* Array primitives.                                                       *)
(***************************************************************************)
RECURSIVE bit_length(_)
bit_length(x) ==
    IF x < 0 THEN bit_length(-x)
    ELSE IF x = 0 THEN 0
    ELSE 1 + bit_length(x \div 2)

\* 1 << k
Shl1(k) == 2 ^ k

\* a call's outcome: the exception raised ("none" when it returns) and the value
Returned(v) == [exc |-> "none", val |-> v]
Raised(e) == [exc |-> e, val |-> << >>]

nextpow2(n, isint) ==
    IF n < 0 \/ ~isint
    THEN Raised("ValueError")
    ELSE Returned(<<Shl1(bit_length(n - 1))>>)

calc_pad_smaller_first(oldnum, newnum) ==
    LET width == newnum - oldnum
        pad1 == width \div 2
        pad2 == width - pad1
    IN  <<pad1, pad2>>

calc_pad(oldnum, newnum) ==
    LET width == newnum - oldnum
        pad1 == width \div 2
        pad2 == width - pad1
    IN  <<pad2, pad1>>

RECURSIVE Insert(_, _)
Insert(s, v) ==
    IF s = << >> THEN <<v>>
    ELSE IF v <= Head(s) THEN <<v>> \o s
    ELSE <<Head(s)>> \o Insert(Tail(s), v)

RECURSIVE SortTo(_, _)
SortTo(a, k) == IF k = 0 THEN << >> ELSE Insert(SortTo(a, k - 1), a[k])

\* np.median of a non-empty vector: NaN when it holds a NaN
median(a) ==
    LET s == SortTo(a, Len(a))
        n == Len(a)
    IN  IF NaN \in Range(a) THEN NaN
        ELSE IF n % 2 = 1 THEN s[(n + 1) \div 2]
        ELSE FDiv(FAdd(s[n \div 2], s[n \div 2 + 1]), Flt(2))

\* np.pad of a vector by padding = <<before, after>>
np_pad(array, padding, pad_mode) ==
    IF padding[1] < 0 \/ padding[2] < 0 THEN Raised("ValueError")
    ELSE LET v == IF pad_mode = "median" THEN median(array) ELSE 0
         IN  Returned(Fill(padding[1], v) \o array \o Fill(padding[2], v))

\* pad_width is None, or the new shape <<n>>
fft_pad_newshape(oldshape, pad_width) ==
    IF pad_width = None
    THEN nextpow2(oldshape, TRUE).val
    ELSE pad_width

fft_padding(array, pad_width) ==
    calc_pad(Len(array), fft_pad_newshape(Len(array), pad_width)[1])

fft_pad(array, pad_width, pad_mode) ==
    np_pad(array, fft_padding(array, pad_width), pad_mode)


(***************************************************************************)
(* Calls of the array primitives.                                          *)
(***************************************************************************)
Bool01(b) == IF b THEN 1 ELSE 0

\* the vectors of length 1..n over the values vals
Vectors(n, vals) == {Tup(f) : f \in UNION {[1..k -> vals] : k \in 1..n}}

Pixels == {Flt(k) : k \in 0..MaxPix}

ArithIdle ==
    /\ a_fn = "none" /\ a_in = << >> /\ a_arr = << >> /\ a_mode = "none"
    /\ a_out = Returned(<< >>) /\ a_padding = << >>

CallNextpow2 ==
    /\ a_fn = "none"
    /\ \E n \in (-MaxN)..MaxN, isint \in BOOLEAN :
        /\ a_fn' = "nextpow2"
        /\ a_in' = <<n, Bool01(isint)>>
        /\ a_out' = nextpow2(n, isint)
        /\ a_arr' = << >> /\ a_mode' = "none" /\ a_padding' = << >>
    /\ UNCHANGED <<rlVars, convVars>>

CallCalcPad ==
    /\ a_fn = "none"
    /\ \E oldnum \in 0..MaxN, newnum \in 0..MaxN :
        /\ a_fn' = "_calc_pad"
        /\ a_in' = <<oldnum, newnum>>
        /\ a_out' = Returned(calc_pad(oldnum, newnum))
        /\ a_arr' = << >> /\ a_mode' = "none" /\ a_padding' = << >>
    /\ UNCHANGED <<rlVars, convVars>>

CallFftPad ==
    /\ a_fn = "none"
    /\ \E array \in Vectors(MaxImgLen, Pixels),
       pad_width \in {None} \cup {<<n>> : n \in 0..(MaxImgLen + 3)},
       pad_mode \in {"median", "constant"} :
        /\ a_fn' = "fft_pad"
        /\ a_in' = pad_width
        /\ a_arr' = array
        /\ a_mode' = pad_mode
        /\ a_padding' = fft_padding(array, pad_width)
        /\ a_out' = fft_pad(array, pad_width, pad_mode)
    /\ UNCHANGED <<rlVars, convVars>>



(***************************************************************************)
(* Fourier transforms.  The transform of a length-n signal is represented  *)
(* by that signal (the DFT is a bijection on the signals of one length):   *)
(* the product of two spectra is then the circular convolution of their    *)
(* signals, and the conjugate of a spectrum is its signal reversed.  A     *)
(* transform of a signal holding a non-finite value is NaN everywhere.     *)
(* The unitary pair scales by n^(-1/2) and n^(1/2): an array carries the   *)
(* exponent e of the factor n^(e/2) that multiplies its values.            *)
(***************************************************************************)
RECURSIVE ConvSum(_, _, _, _)
ConvSum(a, b, k, j) ==
    IF j = 0 THEN 0
    ELSE FAdd(ConvSum(a, b, k, j - 1),
              FMul(a[j], b[((k - j) % Len(a)) + 1]))

CircConv(a, b) ==
    IF AllFinite(a) /\ AllFinite(b)
    THEN Tup([k \in 1..Len(a) |-> ConvSum(a, b, k, Len(a))])
    ELSE Fill(Len(a), NaN)

Reversed(a) == Tup([k \in 1..Len(a) |-> a[((1 - k) % Len(a)) + 1]])

ifftshift(a) ==
    Tup([k \in 1..Len(a) |-> a[((k - 1 + Len(a) \div 2) % Len(a)) + 1]])

Scaled(v, e) == [v |-> v, e |-> e]
Plain(x) == CASE x.e = 0 -> x.v

urfftn(a) == [sig |-> a.v, e |-> a.e - 1]
uirfftn(X) == [v |-> X.sig, e |-> X.e + 1]
SpecMul(X, Y) == [sig |-> CircConv(X.sig, Y.sig), e |-> X.e + Y.e]
SpecScale(w, X) == [sig |-> AMul(w, X.sig), e |-> X.e]
np_conj(X) == [sig |-> Reversed(X.sig), e |-> X.e]
SDiv(a, b) == Scaled(ADiv(a.v, b.v), a.e - b.e)

(***************************************************************************)
(* scale and the pieces of richardson_lucy.                                *)
(***************************************************************************)
AMin(a) == CHOOSE m \in Range(a) : \A x \in Range(a) : m <= x
AMax(a) == CHOOSE m \in Range(a) : \A x \in Range(a) : x <= m

\* scale(data) with dtype = None, on finite data
scale(data) ==
    LET dmin == AMin(data)
        dmax == AMax(data)
        tmin == 0
        tmax == One
    IN  AAdd(AMul(ADiv(ASub(data, <<dmin>>), <<FSub(dmax, dmin)>>),
                  <<FSub(tmax, tmin)>>), <<tmin>>)

\* a[a < 0] = v
ClampNeg(a, v) == Tup([k \in 1..Len(a) |-> IF FLt(a[k], 0) THEN v ELSE a[k]])

rl_pad_psf_median(psf_, shape) == fft_pad(scale(psf_), shape, "median")

\* line 324
rl_pad_psf(psf_, shape) == fft_pad(scale(psf_), shape, "constant")

\* lines 339-348: one Richardson-Lucy update of the predicted image y
rl_update(y, image_, otf_) ==
    LET reblur == uirfftn(SpecMul(otf_, urfftn(Scaled(y, 0))))
        im_ratio == SDiv(Scaled(image_, 0), reblur)
        estimate == uirfftn(SpecMul(np_conj(otf_), urfftn(im_ratio)))
        u_tp1 == AMul(y, Plain(estimate))
    IN  ClampNeg(u_tp1, 0)

shift_history_lossy(tm1, t, tp1) == <<tm1, tp1, tp1>>

\* lines 351-353: the new <<u_tm2, u_tm1, u_t>>
shift_history(tm1, t, tp1) == <<tm1, t, tp1>>

PyMin(a, b) == IF FLt(b, a) THEN b ELSE a
PyMax(a, b) == IF FLt(a, b) THEN b ELSE a

\* lines 357-368: alpha of iteration it, or the exception raised
calc_alpha(it, g1, g2) ==
    IF ~(it > 1) THEN Returned(<<0>>)
    ELSE IF g1 = None \/ g2 = None THEN Raised("TypeError")
    ELSE LET a0 == FDiv(ASum(AMul(g1, g2)), ASum(AMul(g2, g2)))
             a1 == PyMax(PyMin(a0, One), 0)
             a2 == IF ~isfinite(a1) THEN 0 ELSE a1
         IN  IF a2 >= 0 /\ a2 <= One THEN Returned(<<a2>>)
             ELSE Raised("AssertionError")

differences_any_order(al, order, t, tm1, tm2, h2_old) ==
    IF al # 0
    THEN IF tm1 = None \/ tm2 = None THEN Raised("TypeError")
         ELSE Returned(<<ASub(t, tm1),
                         AAdd(ASub(t, AMul(<<Flt(2)>>, tm1)), tm2)>>)
    ELSE Returned(<<<<0>>, <<0>>>>)

\* lines 371-384: the new <<h1_t, h2_t>>, or the exception raised
differences(al, order, t, tm1, tm2, h2_old) ==
    IF al # 0
    THEN IF order > 0
         THEN IF tm1 = None THEN Raised("TypeError")
              ELSE IF order > 1
                   THEN IF tm2 = None THEN Raised("TypeError")
                        ELSE Returned(<<ASub(t, tm1),
                                        AAdd(ASub(t, AMul(<<Flt(2)>>, tm1)), tm2)>>)
                   ELSE Returned(<<ASub(t, tm1), <<0>>>>)
         ELSE Returned(<<<<0>>, h2_old>>)
    ELSE Returned(<<<<0>>, <<0>>>>)

\* enusure_positive(a): the array after the call, or the exception raised
enusure_positive(a) ==
    IF ~AllFinite(a) THEN Raised("AssertionError")
    ELSE Returned(ClampNeg(a, 0))

predicted_unchecked(t, al, h1, h2) ==
    Returned(ClampNeg(
        AAdd(AAdd(t, AMul(<<al>>, h1)),
             AMul(<<FDiv(FMul(al, al), Flt(2))>>, h2)), 0))

\* lines 386-388: the next predicted image, or the exception raised
predicted(t, al, h1, h2) ==
    IF h2 = None THEN Raised("UnboundLocalError")
    ELSE LET y == AAdd(AAdd(t, AMul(<<al>>, h1)),
                       AMul(<<FDiv(FMul(al, al), Flt(2))>>, h2))
             checked == enusure_positive(y)
         IN  IF checked.exc # "none" THEN [exc |-> checked.exc, val |-> y]
             ELSE IF \A k \in DOMAIN checked.val : FGe(checked.val[k], 0)
                  THEN checked
                  ELSE [exc |-> "AssertionError", val |-> checked.val]

\* lines 392-394 on an array
Clip(a) ==
    Tup([k \in 1..Len(a) |->
            IF FLt(One, a[k]) THEN One
            ELSE IF FLt(a[k], -One) THEN -One ELSE a[k]])


(***************************************************************************)
(* richardson_lucy(image, psf, iterations, clip, prediction_order), called *)
(* with win_func = None on an image and a PSF of one dimension each.       *)
(***************************************************************************)
Images == Vectors(MaxImgLen, Pixels)

PsfShapes ==
    { <<1>>, <<0, 1>>, <<1, 0>>, <<1, 1>>, <<0, 1, 0>>, <<1, 0, 0>>,
      <<0, 1, 1>>, <<1, 2, 3>>, <<0, 2, 1>>, <<0, 0, 1, 0>> }

Psfs == {Tup([k \in 1..Len(p) |-> Flt(p[k])]) : p \in PsfShapes}

RLIdle ==
    /\ r_pc = "idle"
    /\ image = None /\ psf = None /\ iterations = 0 /\ clip = FALSE
    /\ prediction_order = 0
    /\ psf_norm = None /\ otf = [sig |-> None, e |-> 0]
    /\ u_tm2 = None /\ u_tm1 = None /\ u_t = None
    /\ g_tm2 = None /\ g_tm1 = None /\ y_t = None
    /\ h1_t = None /\ h2_t = None /\ alpha = 0 /\ i = 0
    /\ r_out = Returned(None)
    /\ u_hist = << >> /\ g_hist = << >> /\ u_ref = None

\* lines 313-324: the arguments are bound and the scaled PSF is padded
RLSetup ==
    /\ r_pc = "idle"
    /\ \E im \in Images, p \in Psfs, K \in 0..MaxIter, c \in BOOLEAN, o \in 0..2 :
        LET padded == rl_pad_psf(p, <<Len(im)>>)
        IN  /\ image' = im /\ psf' = p /\ iterations' = K /\ clip' = c
            /\ prediction_order' = o
            /\ IF padded.exc = "none"
               THEN /\ psf_norm' = padded.val
                    /\ r_pc' = "normalize"
                    /\ r_out' = r_out
               ELSE /\ psf_norm' = psf_norm
                    /\ r_pc' = "failed"
                    /\ r_out' = Raised(padded.exc)
    /\ UNCHANGED <<otf, u_tm2, u_tm1, u_t, g_tm2, g_tm1, y_t, h1_t, h2_t,
                   alpha, i, u_hist, g_hist, u_ref>>
    /\ UNCHANGED <<arithVars, convVars>>

\* lines 325-333: the PSF is normalised, the history is empty, y_t = image
RLNormalize ==
    /\ r_pc = "normalize"
    /\ psf_norm' = ADiv(psf_norm, <<ASum(psf_norm)>>)
    /\ u_tm2' = None /\ u_tm1' = None /\ g_tm2' = None /\ g_tm1' = None
    /\ u_t' = None
    /\ y_t' = image
    /\ otf' = SpecScale(<<One>>, urfftn(Scaled(ifftshift(psf_norm'), 0)))
    /\ i' = 0
    /\ u_ref' = image
    /\ r_pc' = "loop"
    /\ UNCHANGED <<rlArgs, h1_t, h2_t, alpha, r_out, u_hist, g_hist>>
    /\ UNCHANGED <<arithVars, convVars>>

\* lines 335-388: one pass of the loop body, to its end or to an exception
RLIterate ==
    /\ r_pc = "loop"
    /\ i < iterations
    /\ \E u_tp1 \in {rl_update(y_t, image, otf)} :
       \E us \in {shift_history(u_tm1, u_t, u_tp1)} :
       \E g_new \in {ASub(u_tp1, y_t)} :
       \E al \in {calc_alpha(i, g_new, g_tm1)} :
       \E hs \in {IF al.exc = "none"
                  THEN differences(al.val[1], prediction_order,
                                   us[3], us[2], us[1], h2_t)
                  ELSE Raised(al.exc)} :
       \E y_new \in {IF hs.exc = "none"
                     THEN predicted(us[3], al.val[1], hs.val[1], hs.val[2])
                     ELSE Raised(hs.exc)} :
           /\ u_tm2' = us[1] /\ u_tm1' = us[2] /\ u_t' = us[3]
           /\ g_tm2' = g_tm1 /\ g_tm1' = g_new
           /\ u_hist' = Append(u_hist, u_tp1)
           /\ g_hist' = Append(g_hist, g_new)
           /\ u_ref' = rl_update(u_ref, image, otf)
           /\ alpha' = IF al.exc = "none" THEN al.val[1] ELSE alpha
           /\ h1_t' = IF hs.exc = "none" THEN hs.val[1] ELSE h1_t
           /\ h2_t' = IF hs.exc = "none" THEN hs.val[2] ELSE h2_t
           /\ y_t' = IF hs.exc = "none" THEN y_new.val ELSE y_t
           /\ IF y_new.exc = "none"
              THEN /\ i' = i + 1 /\ r_pc' = "loop" /\ r_out' = r_out
              ELSE /\ i' = i /\ r_pc' = "failed" /\ r_out' = Raised(y_new.exc)
    /\ UNCHANGED <<rlArgs, psf_norm, otf>>
    /\ UNCHANGED <<arithVars, convVars>>

\* lines 390-396: the last estimate is clipped on request and returned
RLReturn ==
    /\ r_pc = "loop"
    /\ i = iterations
    /\ IF clip /\ u_t = None
       THEN /\ r_pc' = "failed" /\ r_out' = Raised("TypeError")
       ELSE /\ r_pc' = "done"
            /\ r_out' = Returned(IF clip THEN Clip(u_t) ELSE u_t)
    /\ UNCHANGED <<rlArgs, rlLocals, u_hist, g_hist, u_ref>>
    /\ UNCHANGED <<arithVars, convVars>>




(***************************************************************************)
(* fftconvolve(in1, in2, mode, threads = 1, win_func = np.ones).  An input *)
(* is its rank (0 for a scalar, else 1), whether its dtype is complex, and *)
(* its values; the complex inputs of the model have no imaginary part.     *)
(***************************************************************************)
RECURSIVE Smooth5(_)
Smooth5(n) ==
    IF n <= 1 THEN n = 1
    ELSE IF n % 2 = 0 THEN Smooth5(n \div 2)
    ELSE IF n % 3 = 0 THEN Smooth5(n \div 3)
    ELSE IF n % 5 = 0 THEN Smooth5(n \div 5)
    ELSE FALSE

\* scipy.fftpack.helper.next_fast_len: the least 5-smooth number >= target
next_fast_len(target) ==
    CHOOSE m \in target..(2 * target) :
        /\ Smooth5(m)
        /\ \A q \in target..(m - 1) : ~Smooth5(q)

\* scipy.signal.signaltools._inputs_swap_needed, on one axis
inputs_swap_needed(mode_, s1, s2) == mode_ = "valid" /\ ~(s1 >= s2)

\* scipy.signal.signaltools._centered, on one axis
centered(arr, newsize) ==
    LET startind == (Len(arr) - newsize) \div 2
    IN  SubSeq(arr, startind + 1, startind + newsize)

\* win_nd(size, np.ones) on one axis
win_nd(size) == Fill(size, One)

\* the product of a spectrum and a window of ones
SpecWindow(X, w) == CASE \A k \in DOMAIN w : w[k] = One -> X

\* numpy's fftn(a, s): the transform of a, zero-padded at its end to length s
PadEnd(a, n) == a \o Fill(n - Len(a), 0)

complex_result(a, b) == a.cplx \/ b.cplx

\* lines 416-431, after the swap of line 427: <<in1, in2>>
Swapped(a, b, mode_) ==
    IF inputs_swap_needed(mode_, Len(a.data), Len(b.data)) THEN <<b, a>> ELSE <<a, b>>

ConvShape(a, b) == IF Len(a.data) >= Len(b.data) THEN Len(a.data) ELSE Len(b.data)
ConvFshape(a, b) == next_fast_len(ConvShape(a, b))

\* lines 436-446: the real-FFT path
real_path(a, b, mode_, backend_) ==
    IF backend_ = "numpy" THEN Raised("TypeError")
    ELSE LET sw == Swapped(a, b, mode_)
             fshape == ConvFshape(a, b)
             winshape == fshape \div 2 + 1
             x1 == fft_pad(sw[1].data, <<fshape>>, "median").val
             x2 == ifftshift(fft_pad(sw[2].data, <<fshape>>, "constant").val)
             prod == SpecWindow(SpecMul([sig |-> x1, e |-> 0], [sig |-> x2, e |-> 0]),
                                ifftshift(win_nd(winshape)))
         IN  Returned(SubSeq(prod.sig, 1, ConvShape(a, b)))

\* lines 455-457: the complex-FFT path
complex_path(a, b, mode_) ==
    LET sw == Swapped(a, b, mode_)
        fshape == ConvFshape(a, b)
        prod == SpecMul([sig |-> PadEnd(sw[1].data, fshape), e |-> 0],
                        [sig |-> PadEnd(sw[2].data, fshape), e |-> 0])
    IN  Returned(SubSeq(prod.sig, 1, ConvShape(a, b)))

mode_result_lenient(ret, a, b, mode_) ==
    LET sw == Swapped(a, b, mode_)
        s1 == Len(sw[1].data)
        s2 == Len(sw[2].data)
    IN  IF mode_ = "same" THEN Returned(centered(ret, s1))
        ELSE IF mode_ = "valid" THEN Returned(centered(ret, s1 - s2 + 1))
        ELSE Returned(ret)

\* lines 459-467
mode_result(ret, a, b, mode_) ==
    LET sw == Swapped(a, b, mode_)
        s1 == Len(sw[1].data)
        s2 == Len(sw[2].data)
    IN  IF mode_ = "full" THEN Returned(ret)
        ELSE IF mode_ = "same" THEN Returned(centered(ret, s1))
        ELSE IF mode_ = "valid" THEN Returned(centered(ret, s1 - s2 + 1))
        ELSE Raised("ValueError: Acceptable mode flags")

acquire_unguarded(locked) == <<TRUE, TRUE>>

\* _rfft_lock.acquire(False): <<whether the lock was taken, the lock after>>
acquire_nonblocking(locked) == IF locked THEN <<FALSE, TRUE>> ELSE <<TRUE, TRUE>>

Threads == 1..NThreads

Samples == {Flt(1), Flt(2)}

Arr(nd, cx, d) == [ndim |-> nd, cplx |-> cx, data |-> d]

ConvFirst ==
    {Arr(0, FALSE, <<Flt(2)>>), Arr(1, FALSE, << >>), Arr(1, TRUE, <<Flt(1), Flt(2)>>)}
    \cup {Arr(1, FALSE, d) : d \in Vectors(MaxConvLen, Samples)}

ConvSecond ==
    {Arr(0, FALSE, <<Flt(2)>>), Arr(1, FALSE, << >>), Arr(1, TRUE, <<Flt(1)>>),
     Arr(1, FALSE, <<Flt(1)>>), Arr(1, FALSE, <<Flt(1), Flt(1)>>),
     Arr(1, FALSE, <<Flt(1), Flt(2)>>), Arr(1, FALSE, <<Flt(2), Flt(1), Flt(1)>>)}

Modes == {"full", "same", "valid", "fill"}

ConvIdle ==
    /\ backend = "pyfftw" /\ rfft_mt_safe = TRUE /\ rfft_lock = FALSE
    /\ in1 = Arr(0, FALSE, <<0>>) /\ in2 = Arr(0, FALSE, <<0>>) /\ mode = "full"
    /\ c_pc = [t \in Threads |-> "idle"]
    /\ c_ret = [t \in Threads |-> Returned(<< >>)]

ConvStart ==
    /\ backend \in {"pyfftw", "numpy"}
    /\ rfft_mt_safe \in BOOLEAN
    /\ rfft_lock = FALSE
    /\ in1 \in ConvFirst /\ in2 \in ConvSecond /\ mode \in Modes
    /\ c_pc = [t \in Threads |-> "call"]
    /\ c_ret = [t \in Threads |-> Returned(<< >>)]

\* lines 409-431: the early returns, or on to the choice of the FFT path
ConvEnter(t) ==
    /\ c_pc[t] = "call"
    /\ IF in1.ndim = 0 /\ in2.ndim = 0
       THEN /\ c_ret' = [c_ret EXCEPT ![t] = Returned(AMul(in1.data, in2.data))]
            /\ c_pc' = [c_pc EXCEPT ![t] = "done"]
       ELSE IF in1.ndim # in2.ndim
       THEN /\ c_ret' = [c_ret EXCEPT ![t] = Raised("ValueError: dimensionality")]
            /\ c_pc' = [c_pc EXCEPT ![t] = "done"]
       ELSE IF Len(in1.data) = 0 \/ Len(in2.data) = 0
       THEN /\ c_ret' = [c_ret EXCEPT ![t] = Returned(<< >>)]
            /\ c_pc' = [c_pc EXCEPT ![t] = "done"]
       ELSE /\ c_ret' = c_ret
            /\ c_pc' = [c_pc EXCEPT ![t] = "choose"]
    /\ UNCHANGED <<backend, rfft_mt_safe, rfft_lock, in1, in2, mode>>
    /\ UNCHANGED <<arithVars, rlVars>>

\* line 434: the real-FFT path when the result is real and the backend is
\* thread-safe or the lock is free, else the complex-FFT path
ConvChoose(t) ==
    /\ c_pc[t] = "choose"
    /\ IF complex_result(in1, in2)
       THEN /\ c_pc' = [c_pc EXCEPT ![t] = "complex"]
            /\ rfft_lock' = rfft_lock
       ELSE IF rfft_mt_safe
       THEN /\ c_pc' = [c_pc EXCEPT ![t] = "real"]
            /\ rfft_lock' = rfft_lock
       ELSE LET got == acquire_nonblocking(rfft_lock)
            IN  /\ rfft_lock' = got[2]
                /\ c_pc' = [c_pc EXCEPT ![t] = IF got[1] THEN "real" ELSE "complex"]
    /\ UNCHANGED <<backend, rfft_mt_safe, in1, in2, mode, c_ret>>
    /\ UNCHANGED <<arithVars, rlVars>>

\* lines 435-446: the body of the try
ConvReal(t) ==
    /\ c_pc[t] = "real"
    /\ c_ret' = [c_ret EXCEPT ![t] = real_path(in1, in2, mode, backend)]
    /\ c_pc' = [c_pc EXCEPT ![t] = "finally"]
    /\ UNCHANGED <<backend, rfft_mt_safe, rfft_lock, in1, in2, mode>>
    /\ UNCHANGED <<arithVars, rlVars>>

\* lines 447-449: the lock is released; an exception of the try goes on
ConvFinally(t) ==
    /\ c_pc[t] = "finally"
    /\ rfft_lock' = IF ~rfft_mt_safe THEN FALSE ELSE rfft_lock
    /\ c_pc' = [c_pc EXCEPT ![t] = IF c_ret[t].exc = "none" THEN "mode" ELSE "done"]
    /\ UNCHANGED <<backend, rfft_mt_safe, in1, in2, mode, c_ret>>
    /\ UNCHANGED <<arithVars, rlVars>>

\* lines 450-457
ConvComplex(t) ==
    /\ c_pc[t] = "complex"
    /\ c_ret' = [c_ret EXCEPT ![t] = complex_path(in1, in2, mode)]
    /\ c_pc' = [c_pc EXCEPT ![t] = "mode"]
    /\ UNCHANGED <<backend, rfft_mt_safe, rfft_lock, in1, in2, mode>>
    /\ UNCHANGED <<arithVars, rlVars>>

\* lines 459-467
ConvMode(t) ==
    /\ c_pc[t] = "mode"
    /\ c_ret' = [c_ret EXCEPT ![t] = mode_result(c_ret[t].val, in1, in2, mode)]
    /\ c_pc' = [c_pc EXCEPT ![t] = "done"]
    /\ UNCHANGED <<backend, rfft_mt_safe, rfft_lock, in1, in2, mode>>
    /\ UNCHANGED <<arithVars, rlVars>>

(***************************************************************************)
(* The specifications: the array primitives, richardson_lucy, and          *)
(* fftconvolve called by Threads at once.                                  *)
(***************************************************************************)
InitArith == ArithIdle /\ RLIdle /\ ConvIdle
NextArith == CallNextpow2 \/ CallCalcPad \/ CallFftPad
SpecArith == InitArith /\ [][NextArith]_vars

InitRL == ArithIdle /\ RLIdle /\ ConvIdle
NextRL == RLSetup \/ RLNormalize \/ RLIterate \/ RLReturn
SpecRL == InitRL /\ [][NextRL]_vars

InitConv == ArithIdle /\ RLIdle /\ ConvStart
NextConv ==
    \/ \E t \in Threads : ConvEnter(t)
    \/ \E t \in Threads : ConvChoose(t)
    \/ \E t \in Threads : ConvReal(t)
    \/ \E t \in Threads : ConvFinally(t)
    \/ \E t \in Threads : ConvComplex(t)
    \/ \E t \in Threads : ConvMode(t)
SpecConv == InitConv /\ [][NextConv]_vars


(***************************************************************************)
(* Properties of the array primitives, checked under SpecArith.            *)
(***************************************************************************)
IsPow2(m) == \E k \in 0..(MaxN + 1) : m = 2 ^ k

\* C1: nextpow2(n) is the least power of two >= n for every integer n >= 0,
\* and raises for every integer n < 0.
C1_NextPow2Least ==
    (a_fn = "nextpow2" /\ a_in[2] = 1) =>
        IF a_in[1] >= 0
        THEN /\ a_out.exc = "none"
             /\ IsPow2(a_out.val[1])
             /\ a_out.val[1] >= a_in[1]
             /\ \A m \in 1..(a_out.val[1] - 1) : IsPow2(m) => m < a_in[1]
        ELSE a_out.exc = "ValueError"

PadSplits(first, second) ==
    /\ a_fn = "_calc_pad" /\ a_in[1] <= a_in[2] =>
        /\ a_out.val[1] + a_out.val[2] = a_in[2] - a_in[1]
        /\ (a_in[2] - a_in[1]) % 2 = 1 => a_out.val[first] = a_out.val[second] - 1
    /\ (a_fn = "fft_pad" /\ a_in # None /\ Len(a_arr) <= a_in[1]) =>
        LET width == a_in[1] - Len(a_arr)
            half == width \div 2
            before == IF first = 1 THEN half ELSE width - half
        IN  /\ a_out.exc = "none"
            /\ a_padding = <<before, width - before>>
            /\ Len(a_out.val) = a_in[1]
            /\ SubSeq(a_out.val, before + 1, before + Len(a_arr)) = a_arr

\* C8 as stated: _calc_pad(old, new) for old <= new splits new - old with the
\* smaller half first when it is odd, and fft_pad pads each axis by that pair.
C8_SmallerHalfFirst == PadSplits(1, 2)

\* C8 as amended: _calc_pad(old, new) for old <= new returns (before, after)
\* with before + after = new - old and, when new - old is odd, the larger
\* half first (before = after + 1); fft_pad pads each axis by that pair.
C8_LargerHalfFirst == PadSplits(2, 1)

C8_Witness ==
    /\ a_fn = "_calc_pad" /\ a_in = <<11, 16>> /\ a_out.val = <<3, 2>>

(***************************************************************************)
(* Properties of richardson_lucy, checked under SpecRL.                    *)
(***************************************************************************)
IsUnitImpulse(p) ==
    \E k \in DOMAIN p : p[k] = One /\ \A j \in DOMAIN p \ {k} : p[j] = 0

\* the unit impulse at the centre of an odd-length kernel: the identity kernel
IsIdentityKernel(p) ==
    /\ Len(p) % 2 = 1
    /\ IsUnitImpulse(p)
    /\ p[(Len(p) + 1) \div 2] = One

\* C2: with a unit-impulse PSF the call returns the image, whatever the
\* image, the iteration count and the prediction order.  Stated on the part
\* of that domain the specification gives: a positive image, the identity
\* kernel no longer than the image, one iteration or more, clip left at
\* its default (False).
C2_ImpulseReturnsImage ==
    (/\ r_pc \in {"done", "failed"} /\ ~clip
     /\ IsIdentityKernel(psf) /\ Len(psf) <= Len(image)
     /\ \A k \in DOMAIN image : image[k] > 0
     /\ iterations >= 1) =>
        r_out = Returned(image)

\* C3: with prediction_order = 0, at the end of every iteration h1 and h2 are
\* 0, the predicted image is the clamped estimate, and the estimate is that of
\* the loop with no prediction step.
C3_Order0IsUnaccelerated ==
    (prediction_order = 0 /\ r_pc \in {"loop", "done"} /\ i >= 1) =>
        /\ h1_t = <<0>> /\ h2_t = <<0>>
        /\ y_t = u_t
        /\ u_t = u_ref

C3_Witness ==
    /\ prediction_order = 0 /\ r_pc = "loop" /\ i = 3 /\ alpha # 0
    /\ u_t # image

\* C7: a predicted image holding a non-finite value stops the call with an
\* AssertionError in the iteration that computed it: no step follows, and a
\* call of one iteration or more never returns a non-finite value.
C7_NonFiniteStops ==
    /\ ~AllFinite(y_t) => (r_pc = "failed" /\ r_out.exc = "AssertionError")
    /\ r_pc = "failed" => ~ENABLED (RLIterate \/ RLReturn)
    /\ (r_pc = "done" /\ iterations >= 1) =>
           (r_out.exc = "none" /\ r_out.val # None /\ AllFinite(r_out.val))

C7_Witness ==
    /\ r_pc = "failed" /\ r_out.exc = "AssertionError"
    /\ Len(u_hist) >= 1 /\ y_t # None /\ ~AllFinite(y_t)

PadBeforeAfter == calc_pad(Len(psf), Len(image))
Added(k) == k <= PadBeforeAfter[1] \/ k > PadBeforeAfter[1] + Len(psf)

PsfPaddedWith(v) ==
    (r_pc = "normalize" /\ Len(psf) < Len(image)) =>
        /\ Len(psf_norm) = Len(image)
        /\ \A k \in DOMAIN psf_norm : Added(k) => psf_norm[k] = v
        /\ SubSeq(psf_norm, PadBeforeAfter[1] + 1, PadBeforeAfter[1] + Len(psf))
               = scale(psf)

\* C9 as stated: a PSF smaller than the image is extended, after scaling, by
\* the median of the scaled PSF.
C9_PaddedWithMedian == PsfPaddedWith(median(scale(psf)))

\* C9 as amended: a PSF smaller than the image is extended to the image's
\* shape, after min-max scaling and before it is renormalised, by zeros.
C9_PaddedWithZero == PsfPaddedWith(0)

C9_Witness ==
    /\ r_pc = "normalize" /\ Len(psf) < Len(image)
    /\ AllFinite(scale(psf)) /\ median(scale(psf)) # 0

Slot(hist, k) == IF k >= 1 THEN hist[k] ELSE None

\* C10: after the shift of iteration i the slots hold the estimates of
\* iterations i, i-1, i-2 and the residuals of iterations i, i-1 (None where
\* there is none); alpha is 0 in iterations 0 and 1; whenever alpha, h1 or h2
\* is computed every slot read is defined, and h1, h2 are the differences of
\* the three retained estimates.
C10_HistoryWindow ==
    /\ (r_pc \in {"loop", "done"} /\ i >= 1) =>
        /\ Len(u_hist) = i /\ Len(g_hist) = i
        /\ u_t = Slot(u_hist, i)
        /\ u_tm1 = Slot(u_hist, i - 1)
        /\ u_tm2 = Slot(u_hist, i - 2)
        /\ g_tm1 = Slot(g_hist, i)
        /\ g_tm2 = Slot(g_hist, i - 1)
        /\ i <= 2 => alpha = 0
        /\ alpha # 0 => (u_tm1 # None /\ u_tm2 # None /\ g_tm2 # None)
        /\ (alpha # 0 /\ prediction_order >= 1) => h1_t = ASub(u_t, u_tm1)
        /\ (alpha # 0 /\ prediction_order >= 2) =>
               h2_t = AAdd(ASub(u_t, AMul(<<Flt(2)>>, u_tm1)), u_tm2)
    /\ r_out.exc \notin {"TypeError", "UnboundLocalError"} \/ u_hist = << >>

C10_Witness ==
    /\ r_pc = "loop" /\ i = 3 /\ alpha # 0 /\ prediction_order = 2
    /\ \E k \in DOMAIN h2_t : h2_t[k] # 0
    /\ \E k \in DOMAIN h1_t : h1_t[k] # 0

(***************************************************************************)
(* Properties of fftconvolve, checked under SpecConv.                      *)
(***************************************************************************)
RECURSIVE DirectSum(_, _, _, _)
DirectSum(a, b, k, j) ==
    IF j = 0 THEN 0
    ELSE FAdd(DirectSum(a, b, k, j - 1),
              IF k - j + 1 \in DOMAIN b THEN FMul(a[j], b[k - j + 1]) ELSE 0)

\* the direct linear convolution: out[k] = sum of a[j] * b[k - j]
DirectConv(a, b) ==
    Tup([k \in 1..(Len(a) + Len(b) - 1) |-> DirectSum(a, b, k, Len(a))])

RealArray(a) == a.ndim = 1 /\ ~a.cplx /\ Len(a.data) > 0

\* C4: for real non-empty arrays of one rank, mode "full" returns the direct
\* linear convolution, of extent len1 + len2 - 1.
C4_FullIsDirect ==
    \A t \in Threads :
        (/\ c_pc[t] = "done" /\ mode = "full" /\ backend = "pyfftw"
         /\ RealArray(in1) /\ RealArray(in2)) =>
            c_ret[t] = Returned(DirectConv(in1.data, in2.data))

KnownMode == mode \in {"full", "same", "valid"}

InRealPath(t) == c_pc[t] \in {"real", "finally"}

\* C6: when the backend is not thread-safe, at most one thread is in the
\* real-FFT path and the lock is held exactly while one is, so it is free
\* again after every exit, an exception included; a thread that finds the
\* lock held does not wait: its next step takes the complex-FFT path.
C6_RealFftExclusive ==
    /\ [](~rfft_mt_safe =>
            /\ Cardinality({t \in Threads : InRealPath(t)}) <= 1
            /\ rfft_lock <=> (\E t \in Threads : InRealPath(t))
            /\ \A t \in Threads : c_pc[t] = "choose" => ENABLED ConvChoose(t))
    /\ [][\A t \in Threads :
            (/\ ~rfft_mt_safe /\ rfft_lock
             /\ c_pc[t] = "choose" /\ c_pc'[t] # "choose") =>
                c_pc'[t] = "complex"]_vars

C6_Witness ==
    /\ ~rfft_mt_safe /\ ~complex_result(in1, in2) /\ ~rfft_lock
    /\ \E t1, t2 \in Threads :
        /\ c_pc[t1] = "done" /\ c_ret[t1].exc = "TypeError"
        /\ c_pc[t2] = "complex"

====
